---- MODULE Spec2Model ----
(***************************************************************************)
(* jwaneng_dashboard.py: one run of the Streamlit script, top to bottom.   *)
(* The script loads two CSV files, normalises their date columns, renders  *)
(* nine Key Insights charts, the EDA Explorer, the Summary Statistics and  *)
(* the Downloads tab.  An uncaught Python exception stops the run.         *)
(*                                                                         *)
(* A DataFrame is a record [cols, rows]: the set of column names and the   *)
(* sequence of rows, each row a function from the column names to cells.   *)
(***************************************************************************)
EXTENDS Integers, Sequences, FiniteSets, TLC

VARIABLES
    txFile,         \* synthetic_jwaneng.csv on disk
    smeFile,        \* sme_jwaneng.csv on disk
    df,             \* the transaction DataFrame
    sme_df,         \* the SME loan DataFrame
    pc,             \* the statement of the script about to run
    error,          \* the uncaught exception that stopped the run, or NoError
    messages,       \* what st.warning / st.info have shown
    figs,           \* the figures handed to st.plotly_chart
    payroll_daily,  \* Chart 1's table
    ch,             \* Chart 2's counts
    sme_trend,      \* Chart 4's table
    rep_count,      \* Chart 6's counts
    payroll_emp,    \* Chart 8's table
    cat_count,      \* Chart 9's counts
    x_var,          \* the explorer's selections
    y_var,
    chart_type,
    cumulative,
    fig,            \* the explorer's figure: its kind and the table handed to it
    summary         \* what the Summary Statistics tab wrote

vars == <<txFile, smeFile, df, sme_df, pc, error, messages, figs, payroll_daily,
          ch, sme_trend, rep_count, payroll_emp, cat_count, x_var, y_var,
          chart_type, cumulative, fig, summary>>

(***************************************************************************)
(* Bounds of the model.                                                    *)
(***************************************************************************)
\* the longest transaction table of the general specification
MaxRows == 2
\* the longest SME loan table
MaxSmeRows == 2
\* the longest daily payroll series of the payroll specification
MaxDays == 7

(***************************************************************************)
(* Cells.                                                                  *)
(***************************************************************************)
\* Python's None (the explorer's "no y column"), and "no exception".
None == "None"
NoError == "NoError"

\* pandas' NaT, the null timestamp.
NaT == [sec |-> -1, frac |-> 0]

\* The text of a date cell in a CSV file: whether pandas can parse it, and
\* the instant it then denotes (whole seconds and a sub-second fraction).
DateText(wellformed, sec, frac) == [wellformed |-> wellformed, sec |-> sec, frac |-> frac]

\* pd.to_datetime(text, errors='coerce'): a text that does not parse becomes NaT.
to_datetime(text) ==
    IF text.wellformed THEN [sec |-> text.sec, frac |-> text.frac] ELSE NaT

\* .dt.floor('s'): the sub-second part is dropped; NaT stays NaT.
floor_s(ts) == IF ts = NaT THEN NaT ELSE [sec |-> ts.sec, frac |-> 0]

TxCols == {"date", "amount", "category", "channel", "gender", "is_mine_employee"}
SmeCols == {"date", "loan_amount", "credit_score", "repayment_status"}
NumericCols == {"amount", "loan_amount", "credit_score"}
BoolCols == {"is_mine_employee"}

\* The text cells of the model in Python's string order.
StrOrder == <<"ATM", "F", "M", "Mobile", "default", "late", "on-time", "other", "salary">>

\* The position of a cell in the sort order of its column.
Rank(c, v) ==
    IF c = "date" THEN v.sec
    ELSE IF c \in NumericCols THEN v
    ELSE IF c \in BoolCols THEN (IF v THEN 1 ELSE 0)
    ELSE CHOOSE i \in 1..Len(StrOrder) : StrOrder[i] = v

\* A null cell.  In this model only a date can be null (NaT).
IsNull(c, v) == c = "date" /\ v = NaT

(***************************************************************************)
(* DataFrames.                                                             *)
(***************************************************************************)
\* pd.DataFrame(): no columns, no rows.
EmptyFrame == [cols |-> {}, rows |-> <<>>]

\* DataFrame.empty: some axis has length 0.
IsEmpty(t) == t.cols = {} \/ Len(t.rows) = 0

\* Series.sum(): NaN-free integer measures, so the plain sum.
RECURSIVE SumCol(_, _)
SumCol(rows, c) ==
    IF rows = <<>> THEN 0 ELSE rows[1][c] + SumCol(Tail(rows), c)

\* df[df[c] == v]
RowsWhere(rows, c, v) ==
    LET Test(r) == r[c] = v IN SelectSeq(rows, Test)

\* Series.unique() as a set
Unique(rows, c) == {rows[i][c] : i \in 1..Len(rows)}

\* The keys of a group-by in ascending order (groupby sorts its keys).
RECURSIVE SortKeys(_, _)
SortKeys(c, S) ==
    IF S = {} THEN <<>>
    ELSE LET m == CHOOSE k \in S : \A j \in S : Rank(c, k) <= Rank(c, j)
         IN  <<m>> \o SortKeys(c, S \ {m})

\* The keys a group-by keeps: dropna=True drops the null keys.
GroupKeys(rows, g) == {k \in Unique(rows, g) : ~IsNull(g, k)}

\* A faulty variant of GroupBySum: dropna=False, the null key forms a group too.
GroupBySumKeepNull(rows, g, m) ==
    LET keys == SortKeys(g, Unique(rows, g))
    IN  [i \in 1..Len(keys) |->
            (g :> keys[i]) @@ (m :> SumCol(RowsWhere(rows, g, keys[i]), m))]

\* A faulty variant of GroupBySum: .last() in place of .sum().
GroupByLast(rows, g, m) ==
    LET keys == SortKeys(g, GroupKeys(rows, g))
    IN  [i \in 1..Len(keys) |->
            LET grp == RowsWhere(rows, g, keys[i])
            IN  (g :> keys[i]) @@ (m :> grp[Len(grp)][m])]

\* t.groupby(g)[m].sum().reset_index() for g # m: one row per non-null key,
\* keys ascending, the measure summed over the key's rows.
GroupBySum(rows, g, m) ==
    LET keys == SortKeys(g, GroupKeys(rows, g))
    IN  [i \in 1..Len(keys) |->
            (g :> keys[i]) @@ (m :> SumCol(RowsWhere(rows, g, keys[i]), m))]

\* A faulty variant of CumSum: the running total is left out.
CumSumOmitted(rows, y) == rows

\* rows[y] = rows[y].cumsum()
CumSum(rows, y) ==
    [i \in 1..Len(rows) |-> [rows[i] EXCEPT ![y] = SumCol(SubSeq(rows, 1, i), y)]]

\* Series.value_counts(): the number of rows per value (the order of the
\* counts is not modelled).
ValueCounts(rows, c) ==
    [v \in Unique(rows, c) |-> Len(RowsWhere(rows, c, v))]

\* A name the script has not assigned yet.
NoTable == EmptyFrame
NoCounts == <<>>
NoFig == [kind |-> None, data |-> NoTable]
NoSummary == [describe |-> <<>>, counts |-> <<>>]

(***************************************************************************)
(* The files on disk.                                                      *)
(***************************************************************************)
\* A file is missing, blank (zero bytes: no header line) or a CSV text with a
\* header line and rows.
Missing == [kind |-> "missing", table |-> EmptyFrame]
Blank == [kind |-> "blank", table |-> EmptyFrame]
Csv(t) == [kind |-> "csv", table |-> t]

TxRow(d, a, cat, chan, g, emp) ==
    [date |-> d, amount |-> a, category |-> cat, channel |-> chan, gender |-> g,
     is_mine_employee |-> emp]

\* The transaction rows the files of the model are made of.
TxRowPool ==
    { TxRow(DateText(FALSE, 0, 0), 2, "salary", "ATM", "F", TRUE),
      TxRow(DateText(TRUE, 0, 0), 1, "salary", "ATM", "M", TRUE),
      TxRow(DateText(TRUE, 0, 5), 2, "salary", "Mobile", "F", FALSE),
      TxRow(DateText(TRUE, 1, 0), 3, "salary", "ATM", "M", FALSE),
      TxRow(DateText(TRUE, 0, 0), -1, "other", "Mobile", "F", TRUE),
      TxRow(DateText(TRUE, 1, 0), 2, "other", "ATM", "M", FALSE) }

SmeRow(d, loan, score, status) ==
    [date |-> d, loan_amount |-> loan, credit_score |-> score,
     repayment_status |-> status]

SmeRowPool ==
    { SmeRow(DateText(FALSE, 0, 0), 5, 600, "late"),
      SmeRow(DateText(TRUE, 0, 5), 3, 700, "on-time"),
      SmeRow(DateText(TRUE, 1, 0), 4, 650, "default") }

\* All sequences over S of length at most n.
SeqsUpTo(S, n) == UNION {[1..k -> S] : k \in 0..n}

\* A table written with only the columns cs.
Project(rows, cs) ==
    [cols |-> cs, rows |-> [i \in 1..Len(rows) |-> [c \in cs |-> rows[i][c]]]]

\* The header lines a file of the model can have.
TxColSets == {TxCols, TxCols \ {"gender", "is_mine_employee"}}
SmeColSets == {SmeCols, SmeCols \ {"date"}, SmeCols \ {"date", "credit_score"}}

TxFiles ==
    {Missing, Blank} \cup
    {Csv(Project(rows, cs)) : rows \in SeqsUpTo(TxRowPool, MaxRows), cs \in TxColSets}

SmeFiles ==
    {Missing, Blank} \cup
    {Csv(Project(rows, cs)) : rows \in SeqsUpTo(SmeRowPool, MaxSmeRows), cs \in SmeColSets}

\* Small sets of files, paired with every file of the other source.
TxBasic ==
    {Missing, Csv(Project(<<>>, TxCols)),
     Csv(Project(<<TxRow(DateText(TRUE, 0, 0), 1, "salary", "ATM", "M", TRUE)>>, TxCols))}

SmeBasic ==
    {Missing, Csv(Project(<<SmeRow(DateText(TRUE, 0, 5), 3, 700, "on-time")>>, SmeCols \ {"date"}))}

\* The pairs of files a run of the general specification starts from.
Inputs == (TxFiles \X SmeBasic) \cup (TxBasic \X SmeFiles)

\* The payroll specification's files: a salary row on each of n successive
\* days, possibly followed by a row whose date does not parse.
PayrollRows(n) ==
    [i \in 1..n |-> TxRow(DateText(TRUE, i, 0), i, "salary", "ATM", "F", TRUE)]

PayrollFiles ==
    {Csv(Project(PayrollRows(n) \o tail, TxCols)) :
        n \in 0..MaxDays,
        tail \in {<<>>, <<TxRow(DateText(FALSE, 0, 0), 2, "salary", "ATM", "F", TRUE)>>}}

(***************************************************************************)
(* load_csv and the date conversion.                                       *)
(***************************************************************************)
TxName == "synthetic_jwaneng.csv"
SmeName == "sme_jwaneng.csv"

Warning(text, subject) == [level |-> "warning", text |-> text, subject |-> subject]
Info(text) == [level |-> "info", text |-> text, subject |-> None]

\* pd.read_csv raises EmptyDataError on a file with no header line.
LoadRaises(file) == file.kind = "blank"

\* The DataFrame load_csv returns.
load_csv(file) == IF file.kind = "missing" THEN EmptyFrame ELSE file.table

\* The warnings load_csv shows.
LoadWarnings(name, file) ==
    IF file.kind = "missing" THEN {Warning("File not found", name)}
    ELSE IF IsEmpty(file.table) THEN {Warning("File is empty", name)}
    ELSE {}

\* A faulty variant of ConvertDates: the rows whose date does not parse are dropped.
ConvertDatesDropBad(t) ==
    IF "date" \in t.cols
    THEN LET Good(r) == r.date.wellformed
             kept == SelectSeq(t.rows, Good)
         IN  [t EXCEPT !.rows = [i \in 1..Len(kept) |->
                 [kept[i] EXCEPT !.date = floor_s(to_datetime(kept[i].date))]]]
    ELSE t

\* if 'date' in t.columns: t['date'] = pd.to_datetime(t['date'], errors='coerce').dt.floor('s')
ConvertDates(t) ==
    IF "date" \in t.cols
    THEN [t EXCEPT !.rows = [i \in 1..Len(t.rows) |->
             [t.rows[i] EXCEPT !.date = floor_s(to_datetime(t.rows[i].date))]]]
    ELSE t

(***************************************************************************)
(* The EDA Explorer's chart dispatch.                                      *)
(***************************************************************************)
ChartTypes == {"Scatter", "Line", "Bar", "Cumulative Bar", "Cumulative Line",
               "Histogram", "Pie", "Box", "Violin"}
XYTypes == {"Scatter", "Line", "Bar", "Cumulative Bar", "Cumulative Line"}
CumTypes == {"Cumulative Bar", "Cumulative Line"}

\* The y columns the model selects: None, or a numeric measure of the table.
YChoices(t) == {None} \cup (t.cols \cap NumericCols)

\* The explorer's aggregation is reached: chart type and y allow it, and both
\* the checkbox and a cumulative chart type ask for it.
Aggregates(y, ct, cum) == ct \in XYTypes /\ y # None /\ cum /\ ct \in CumTypes

\* Series.reset_index() raises ValueError ("cannot insert y, already exists")
\* when the grouped series is named like its index.
ExplorerRaises(x, y, ct, cum) == Aggregates(y, ct, cum) /\ x = y

\* plot_df.groupby(x)[y].sum().reset_index(), then plot_df[y] = plot_df[y].cumsum()
CumulativeTable(t, x, y) ==
    [cols |-> {x, y}, rows |-> CumSum(GroupBySum(t.rows, x, y), y)]

\* A faulty variant of ExplorerFig: Box and Violin are drawn without a y column.
ExplorerFigBoxNoY(t, x, y, ct, cum) ==
    IF ct \in XYTypes /\ y # None
    THEN [kind |-> IF ct = "Scatter" THEN "scatter"
                   ELSE IF ct \in {"Line", "Cumulative Line"} THEN "line" ELSE "bar",
          data |-> IF cum /\ ct \in CumTypes THEN CumulativeTable(t, x, y) ELSE t]
    ELSE IF ct = "Histogram" THEN [kind |-> "histogram", data |-> t]
    ELSE IF ct = "Pie" THEN [kind |-> "pie", data |-> t]
    ELSE IF ct = "Box" THEN [kind |-> "box", data |-> t]
    ELSE IF ct = "Violin" THEN [kind |-> "violin", data |-> t]
    ELSE NoFig

\* A faulty variant of ExplorerFig: a cumulative chart type aggregates whether or not
\* the checkbox is ticked.
ExplorerFigNoCheckbox(t, x, y, ct, cum) ==
    IF ct \in XYTypes /\ y # None
    THEN [kind |-> IF ct = "Scatter" THEN "scatter"
                   ELSE IF ct \in {"Line", "Cumulative Line"} THEN "line" ELSE "bar",
          data |-> IF ct \in CumTypes /\ x # y THEN CumulativeTable(t, x, y) ELSE t]
    ELSE IF ct = "Histogram" THEN [kind |-> "histogram", data |-> t]
    ELSE IF ct = "Pie" THEN [kind |-> "pie", data |-> t]
    ELSE IF ct = "Box" /\ y # None THEN [kind |-> "box", data |-> t]
    ELSE IF ct = "Violin" /\ y # None THEN [kind |-> "violin", data |-> t]
    ELSE NoFig

\* The figure the dispatch builds (fig stays None when no branch assigns it)
\* and the table it hands to plotly, when no exception is raised.
ExplorerFig(t, x, y, ct, cum) ==
    IF ct \in XYTypes /\ y # None
    THEN [kind |-> IF ct = "Scatter" THEN "scatter"
                   ELSE IF ct \in {"Line", "Cumulative Line"} THEN "line" ELSE "bar",
          data |-> IF cum /\ ct \in CumTypes THEN CumulativeTable(t, x, y) ELSE t]
    ELSE IF ct = "Histogram" THEN [kind |-> "histogram", data |-> t]
    ELSE IF ct = "Pie" THEN [kind |-> "pie", data |-> t]
    ELSE IF ct = "Box" /\ y # None THEN [kind |-> "box", data |-> t]
    ELSE IF ct = "Violin" /\ y # None THEN [kind |-> "violin", data |-> t]
    ELSE NoFig

\* A faulty variant of DfAfterExplorer: the aggregation is written into df itself.
DfAfterExplorerInPlace(t, x, y, ct, cum) ==
    IF Aggregates(y, ct, cum) THEN CumulativeTable(t, x, y) ELSE t

\* df after the explorer block: the block assigns only plot_df, first a copy
\* of df and then the new frame the group-by returns, so df keeps its value.
DfAfterExplorer(t, x, y, ct, cum) == t

(***************************************************************************)
(* Summary Statistics.                                                     *)
(***************************************************************************)
CategoricalCols == {"gender", "category", "channel", "is_mine_employee"}

Min(S) == CHOOSE m \in S : \A n \in S : m <= n
Max(S) == CHOOSE m \in S : \A n \in S : m >= n

\* df.describe() on the numeric columns: count, min and max (the mean, the
\* deviation and the quartiles are not integers and are not modelled).
Describe(t) ==
    [c \in t.cols \cap NumericCols |->
        [count |-> Len(t.rows), min |-> Min(Unique(t.rows, c)),
         max |-> Max(Unique(t.rows, c))]]

\* What tab 3 writes for a non-empty df.
Summarise(t) ==
    [describe |-> Describe(t),
     counts |-> [c \in t.cols \cap CategoricalCols |-> ValueCounts(t.rows, c)]]

(***************************************************************************)
(* The run.                                                                *)
(***************************************************************************)
PdfFiles == {"Simple Bank Data Analysis - Colab.pdf",
             "Simple Bank Data Project Explanation.pdf"}

Start(tx, sme) ==
    /\ txFile = tx
    /\ smeFile = sme
    /\ df = NoTable
    /\ sme_df = NoTable
    /\ pc = "load_df"
    /\ error = NoError
    /\ messages = {}
    /\ figs = {}
    /\ payroll_daily = NoTable
    /\ ch = NoCounts
    /\ sme_trend = NoTable
    /\ rep_count = NoCounts
    /\ payroll_emp = NoTable
    /\ cat_count = NoCounts
    /\ x_var = None
    /\ y_var = None
    /\ chart_type = None
    /\ cumulative = FALSE
    /\ fig = NoFig
    /\ summary = NoSummary

Init == \E in \in Inputs : Start(in[1], in[2])

InitPayroll == \E tx \in PayrollFiles : Start(tx, Missing)

views == <<payroll_daily, ch, sme_trend, rep_count, payroll_emp, cat_count>>
explorer == <<x_var, y_var, chart_type, cumulative, fig>>
files == <<txFile, smeFile>>

\* An uncaught exception: Streamlit shows it and the run stops there.
Raise(e) ==
    /\ pc' = "crashed"
    /\ error' = e

Goto(next) ==
    /\ pc' = next
    /\ error' = error

\* df = load_csv("synthetic_jwaneng.csv")
LoadDf ==
    /\ pc = "load_df"
    /\ IF LoadRaises(txFile)
       THEN Raise("EmptyDataError") /\ UNCHANGED <<df, messages>>
       ELSE /\ df' = load_csv(txFile)
            /\ messages' = messages \cup LoadWarnings(TxName, txFile)
            /\ Goto("load_sme")
    /\ UNCHANGED <<files, sme_df, figs, views, explorer, summary>>

\* sme_df = load_csv("sme_jwaneng.csv")
LoadSme ==
    /\ pc = "load_sme"
    /\ IF LoadRaises(smeFile)
       THEN Raise("EmptyDataError") /\ UNCHANGED <<sme_df, messages>>
       ELSE /\ sme_df' = load_csv(smeFile)
            /\ messages' = messages \cup LoadWarnings(SmeName, smeFile)
            /\ Goto("convert")
    /\ UNCHANGED <<files, df, figs, views, explorer, summary>>

\* Convert date columns safely
Convert ==
    /\ pc = "convert"
    /\ df' = ConvertDates(df)
    /\ sme_df' = ConvertDates(sme_df)
    /\ Goto("chart1")
    /\ UNCHANGED <<files, messages, figs, views, explorer, summary>>

\* Chart 1: Payroll Trend
Chart1 ==
    /\ pc = "chart1"
    /\ IF "category" \notin df.cols
       THEN Raise("KeyError") /\ UNCHANGED <<payroll_daily, figs>>
       ELSE IF "salary" \notin Unique(df.rows, "category")
       THEN Goto("chart2") /\ UNCHANGED <<payroll_daily, figs>>
       ELSE IF {"date", "amount"} \subseteq df.cols
       THEN /\ payroll_daily' =
                [cols |-> {"date", "amount"},
                 rows |-> GroupBySum(RowsWhere(df.rows, "category", "salary"),
                                     "date", "amount")]
            /\ figs' = figs \cup {"fig1"}
            /\ Goto("chart2")
       ELSE Raise("KeyError") /\ UNCHANGED <<payroll_daily, figs>>
    /\ UNCHANGED <<files, df, sme_df, messages, ch, sme_trend, rep_count,
                   payroll_emp, cat_count, explorer, summary>>

\* Chart 2: Channel Distribution
Chart2 ==
    /\ pc = "chart2"
    /\ IF "channel" \notin df.cols
       THEN Raise("KeyError") /\ UNCHANGED <<ch, figs>>
       ELSE /\ ch' = ValueCounts(df.rows, "channel")
            /\ figs' = figs \cup {"fig2"}
            /\ Goto("chart3")
    /\ UNCHANGED <<files, df, sme_df, messages, payroll_daily, sme_trend,
                   rep_count, payroll_emp, cat_count, explorer, summary>>

\* Chart 3: Transaction Amount Distribution (plotly bins the column itself)
Chart3 ==
    /\ pc = "chart3"
    /\ IF "amount" \notin df.cols
       THEN Raise("ValueError") /\ UNCHANGED figs
       ELSE figs' = figs \cup {"fig3"} /\ Goto("chart4")
    /\ UNCHANGED <<files, df, sme_df, messages, views, explorer, summary>>

\* Chart 4: SME Financing Trend
Chart4 ==
    /\ pc = "chart4"
    /\ IF ~IsEmpty(sme_df) /\ "date" \in sme_df.cols
       THEN IF "loan_amount" \in sme_df.cols
            THEN /\ sme_trend' =
                     [cols |-> {"date", "loan_amount"},
                      rows |-> GroupBySum(sme_df.rows, "date", "loan_amount")]
                 /\ figs' = figs \cup {"fig4"}
                 /\ Goto("chart5")
            ELSE Raise("KeyError") /\ UNCHANGED <<sme_trend, figs>>
       ELSE Goto("chart5") /\ UNCHANGED <<sme_trend, figs>>
    /\ UNCHANGED <<files, df, sme_df, messages, payroll_daily, ch, rep_count,
                   payroll_emp, cat_count, explorer, summary>>

\* Chart 5: SME Credit Score Distribution
Chart5 ==
    /\ pc = "chart5"
    /\ figs' = IF "credit_score" \in sme_df.cols THEN figs \cup {"fig5"} ELSE figs
    /\ Goto("chart6")
    /\ UNCHANGED <<files, df, sme_df, messages, views, explorer, summary>>

\* Chart 6: SME Repayment Status Counts
Chart6 ==
    /\ pc = "chart6"
    /\ IF "repayment_status" \in sme_df.cols
       THEN /\ rep_count' = ValueCounts(sme_df.rows, "repayment_status")
            /\ figs' = figs \cup {"fig6"}
       ELSE UNCHANGED <<rep_count, figs>>
    /\ Goto("chart7")
    /\ UNCHANGED <<files, df, sme_df, messages, payroll_daily, ch, sme_trend,
                   payroll_emp, cat_count, explorer, summary>>

\* Chart 7: Gender Distribution
Chart7 ==
    /\ pc = "chart7"
    /\ figs' = IF "gender" \in df.cols THEN figs \cup {"fig7"} ELSE figs
    /\ Goto("chart8")
    /\ UNCHANGED <<files, df, sme_df, messages, views, explorer, summary>>

\* Chart 8: Payroll vs Mine Employee
Chart8 ==
    /\ pc = "chart8"
    /\ IF "is_mine_employee" \notin df.cols
       THEN Goto("chart9") /\ UNCHANGED <<payroll_emp, figs>>
       ELSE IF {"category", "amount"} \subseteq df.cols
       THEN /\ payroll_emp' =
                [cols |-> {"is_mine_employee", "amount"},
                 rows |-> GroupBySum(RowsWhere(df.rows, "category", "salary"),
                                     "is_mine_employee", "amount")]
            /\ figs' = figs \cup {"fig8"}
            /\ Goto("chart9")
       ELSE Raise("KeyError") /\ UNCHANGED <<payroll_emp, figs>>
    /\ UNCHANGED <<files, df, sme_df, messages, payroll_daily, ch, sme_trend,
                   rep_count, cat_count, explorer, summary>>

\* Chart 9: Transaction Count by Category
Chart9 ==
    /\ pc = "chart9"
    /\ IF "category" \notin df.cols
       THEN Raise("KeyError") /\ UNCHANGED <<cat_count, figs>>
       ELSE /\ cat_count' = ValueCounts(df.rows, "category")
            /\ figs' = figs \cup {"fig9"}
            /\ Goto("tab2")
    /\ UNCHANGED <<files, df, sme_df, messages, payroll_daily, ch, sme_trend,
                   rep_count, payroll_emp, explorer, summary>>

\* TAB 2: EDA Explorer, with the selections the user has made
Explorer ==
    /\ pc = "tab2"
    /\ IF IsEmpty(df)
       THEN Goto("tab3") /\ UNCHANGED <<df, messages, figs, explorer>>
       ELSE \E x \in df.cols, y \in YChoices(df), ct \in ChartTypes, cum \in BOOLEAN :
              /\ x_var' = x
              /\ y_var' = y
              /\ chart_type' = ct
              /\ cumulative' = cum
              /\ IF ExplorerRaises(x, y, ct, cum)
                 THEN Raise("ValueError") /\ UNCHANGED <<df, fig, figs, messages>>
                 ELSE /\ fig' = ExplorerFig(df, x, y, ct, cum)
                      /\ df' = DfAfterExplorer(df, x, y, ct, cum)
                      /\ IF fig' # NoFig
                         THEN figs' = figs \cup {"fig"} /\ UNCHANGED messages
                         ELSE /\ messages' = messages \cup
                                    {Info("Select a Y variable for this chart type if needed.")}
                              /\ UNCHANGED figs
                      /\ Goto("tab3")
    /\ UNCHANGED <<files, sme_df, views, summary>>

\* TAB 3: Summary Statistics
SummaryStatistics ==
    /\ pc = "tab3"
    /\ summary' = IF IsEmpty(df) THEN summary ELSE Summarise(df)
    /\ Goto("tab4")
    /\ UNCHANGED <<files, df, sme_df, messages, figs, views, explorer>>

\* TAB 4: Downloads, with the project files that exist on disk
Downloads ==
    /\ pc = "tab4"
    /\ \E present \in SUBSET PdfFiles :
          messages' = messages \cup
              {Warning("File not found", f) : f \in PdfFiles \ present}
    /\ Goto("done")
    /\ UNCHANGED <<files, df, sme_df, figs, views, explorer, summary>>

\* A widget interaction: Streamlit runs the script again from the top, on the
\* same files.
Rerun ==
    /\ pc \in {"done", "crashed"}
    /\ df' = NoTable
    /\ sme_df' = NoTable
    /\ pc' = "load_df"
    /\ error' = NoError
    /\ messages' = {}
    /\ figs' = {}
    /\ payroll_daily' = NoTable
    /\ ch' = NoCounts
    /\ sme_trend' = NoTable
    /\ rep_count' = NoCounts
    /\ payroll_emp' = NoTable
    /\ cat_count' = NoCounts
    /\ x_var' = None
    /\ y_var' = None
    /\ chart_type' = None
    /\ cumulative' = FALSE
    /\ fig' = NoFig
    /\ summary' = NoSummary
    /\ UNCHANGED files

Next ==
    \/ LoadDf \/ LoadSme \/ Convert
    \/ Chart1 \/ Chart2 \/ Chart3 \/ Chart4 \/ Chart5
    \/ Chart6 \/ Chart7 \/ Chart8 \/ Chart9
    \/ Explorer \/ SummaryStatistics \/ Downloads \/ Rerun

Spec == Init /\ [][Next]_vars

SpecPayroll == InitPayroll /\ [][Next]_vars

(***************************************************************************)
(* Properties.                                                             *)
(***************************************************************************)
\* The statements of the script in the order it runs them.
PcSeq == <<"load_df", "load_sme", "convert", "chart1", "chart2", "chart3",
           "chart4", "chart5", "chart6", "chart7", "chart8", "chart9",
           "tab2", "tab3", "tab4", "done">>

Pos(l) == CHOOSE i \in 1..Len(PcSeq) : PcSeq[i] = l

\* The run has executed statement l and has not been stopped.
Past(l) == pc # "crashed" /\ Pos(pc) > Pos(l)

\* Both tables are loaded and their dates converted.
Loaded == pc \notin {"load_df", "load_sme", "convert"} /\ error # "EmptyDataError"

\* The explorer block has run to its end on a non-empty df.
ExplorerRan == pc \in {"tab3", "tab4", "done"} /\ x_var # None

\* The rows of a file as pandas reads them.
FileRows(file) == load_csv(file).rows

\* A file that is missing or holds a header line and no rows.
ZeroRows(file) ==
    file.kind = "missing" \/ (file.kind = "csv" /\ Len(file.table.rows) = 0)

RECURSIVE SumCounts(_)
SumCounts(f) ==
    IF DOMAIN f = {} THEN 0
    ELSE LET v == CHOOSE w \in DOMAIN f : TRUE
         IN  f[v] + SumCounts([w \in DOMAIN f \ {v} |-> f[w]])

\* C1: when a source file is missing or has zero rows the run completes: no
\* exception stops the script (here for files load_csv can read at all).
C1_EmptySourceRunCompletes ==
    (/\ txFile.kind # "blank"
     /\ smeFile.kind # "blank"
     /\ ZeroRows(txFile) \/ ZeroRows(smeFile))
    => error = NoError

\* C2: with a non-empty SME table that has no date column, Chart 4 shows a
\* message of its own (beyond what loading showed), and once the SME charts
\* have run the credit-score and repayment-status views are there whenever
\* their columns are.
C2_MissingDateIsReported ==
    (Past("chart6") /\ ~IsEmpty(sme_df) /\ "date" \notin sme_df.cols)
    => /\ \E m \in messages :
            m \notin LoadWarnings(TxName, txFile) \cup LoadWarnings(SmeName, smeFile)
       /\ "credit_score" \in sme_df.cols => "fig5" \in figs
       /\ "repayment_status" \in sme_df.cols =>
            "fig6" \in figs /\ rep_count = ValueCounts(sme_df.rows, "repayment_status")

NeedsY == {"Scatter", "Line", "Bar", "Cumulative Bar", "Cumulative Line", "Box", "Violin"}

\* C3: a chart type that needs a y column, with none selected, gives no figure
\* and no aggregated table but the info message; Histogram and Pie always give
\* a figure, of the transaction table, whatever y is.
C3_MissingYGivesInfo ==
    ExplorerRan =>
        /\ (chart_type \in NeedsY /\ y_var = None) =>
              /\ fig = NoFig
              /\ "fig" \notin figs
              /\ Info("Select a Y variable for this chart type if needed.") \in messages
        /\ chart_type \in {"Histogram", "Pie"} =>
              /\ fig.kind # None
              /\ fig.data = df
              /\ "fig" \in figs

C3_Witness ==
    /\ ExplorerRan
    /\ chart_type = "Cumulative Bar"
    /\ cumulative
    /\ y_var = None
    /\ fig = NoFig
    /\ Len(df.rows) = 2

\* The table C4 describes: one row per distinct non-null x, x ascending, y the
\* total of y over the rows whose x is at most that x.
RunningTotals(rows, x, y) ==
    LET keys == SortKeys(x, {k \in Unique(rows, x) : ~IsNull(x, k)})
        UpTo(k) == LET Test(r) == ~IsNull(x, r[x]) /\ Rank(x, r[x]) <= Rank(x, k)
                   IN  SelectSeq(rows, Test)
    IN  [i \in 1..Len(keys) |-> (x :> keys[i]) @@ (y :> SumCol(UpTo(keys[i]), y))]

\* C4: whenever the chart type is Cumulative Bar or Cumulative Line and a y
\* column is selected, the chart is handed the running totals of the per-x sums.
C4_CumulativeTypeGivesRunningTotals ==
    (pc \in {"tab3", "tab4", "done", "crashed"} /\ chart_type \in CumTypes /\ y_var # None)
    => /\ error = NoError
       /\ fig.data.rows = RunningTotals(df.rows, x_var, y_var)

\* out is a group-by-sum of rows: it conserves the measure over the rows with a
\* non-null key and holds every non-null key exactly once.
Conserves(rows, out, g, m) ==
    LET NonNull(r) == ~IsNull(g, r[g])
    IN  /\ SumCol(out, m) = SumCol(SelectSeq(rows, NonNull), m)
        /\ {out[i][g] : i \in 1..Len(out)} =
              {k \in {rows[i][g] : i \in 1..Len(rows)} : ~IsNull(g, k)}
        /\ \A i, j \in 1..Len(out) : out[i][g] = out[j][g] => i = j

SalaryRows == RowsWhere(df.rows, "category", "salary")

\* C5: each group-by-sum the run has computed conserves total mass and keeps
\* every distinct non-null key once; for the explorer, whose sums are replaced
\* by their running total, the last total is the whole mass.
C5_GroupBySumConservesMass ==
    /\ "fig1" \in figs => Conserves(SalaryRows, payroll_daily.rows, "date", "amount")
    /\ "fig4" \in figs => Conserves(sme_df.rows, sme_trend.rows, "date", "loan_amount")
    /\ "fig8" \in figs => Conserves(SalaryRows, payroll_emp.rows, "is_mine_employee", "amount")
    /\ (ExplorerRan /\ Aggregates(y_var, chart_type, cumulative)) =>
          LET out == fig.data.rows
              NonNull(r) == ~IsNull(x_var, r[x_var])
          IN  /\ {out[i][x_var] : i \in 1..Len(out)} =
                    {k \in {df.rows[i][x_var] : i \in 1..Len(df.rows)} : ~IsNull(x_var, k)}
              /\ \A i, j \in 1..Len(out) : out[i][x_var] = out[j][x_var] => i = j
              /\ out # <<>> => out[Len(out)][y_var] =
                                   SumCol(SelectSeq(df.rows, NonNull), y_var)

C5_Witness ==
    /\ pc = "done"
    /\ {"fig1", "fig8"} \subseteq figs
    /\ Len(payroll_daily.rows) = 1
    /\ Len(SalaryRows) = 2
    /\ \E i \in 1..Len(df.rows) : df.rows[i].date = NaT
    /\ Aggregates(y_var, chart_type, cumulative)
    /\ x_var = "date"

\* C6: the payroll trend carries a 7-bucket rolling average besides date and
\* amount: no value on the first 6 points, the mean of points 1 to 7 on the 7th.
C6_PayrollCarriesRollingAverage ==
    ("fig1" \in figs /\ Len(payroll_daily.rows) >= 7)
    => \E c \in payroll_daily.cols \ {"date", "amount"} :
          /\ \A i \in 1..6 : payroll_daily.rows[i][c] = None
          /\ 7 * payroll_daily.rows[7][c] = SumCol(SubSeq(payroll_daily.rows, 1, 7), "amount")

\* C7: the cumulative table is non-decreasing in y along x ascending whenever
\* no value of the y measure is negative.
C7_CumulativeIsMonotone ==
    (/\ ExplorerRan
     /\ Aggregates(y_var, chart_type, cumulative)
     /\ \A i \in 1..Len(df.rows) : df.rows[i][y_var] >= 0)
    => \A i \in 1..(Len(fig.data.rows) - 1) :
          /\ Rank(x_var, fig.data.rows[i][x_var]) < Rank(x_var, fig.data.rows[i + 1][x_var])
          /\ fig.data.rows[i][y_var] <= fig.data.rows[i + 1][y_var]

C7_Witness ==
    /\ ExplorerRan
    /\ Aggregates(y_var, chart_type, cumulative)
    /\ \A i \in 1..Len(df.rows) : df.rows[i][y_var] >= 0
    /\ Len(fig.data.rows) = 2
    /\ fig.data.rows[1][y_var] < fig.data.rows[2][y_var]

\* C8: once loaded and converted, df and sme_df keep the value the files give
\* them through every view, every explorer selection and every rerun.
C8_TablesAreReadOnly ==
    Loaded =>
        /\ df = ConvertDates(load_csv(txFile))
        /\ sme_df = ConvertDates(load_csv(smeFile))

C8_Witness ==
    /\ pc = "done"
    /\ Aggregates(y_var, chart_type, cumulative)
    /\ "fig" \in figs
    /\ Len(df.rows) = 2
    /\ fig.data # df

\* The date cell the conversion must give for a file's date text.
Converted(text) ==
    IF text.wellformed THEN [sec |-> text.sec, frac |-> 0] ELSE NaT

\* t is the file's table with every row kept and only the dates converted.
RowsKept(t, file) ==
    LET raw == FileRows(file)
    IN  /\ t.cols = load_csv(file).cols
        /\ Len(t.rows) = Len(raw)
        /\ \A i \in 1..Len(raw) : \A c \in t.cols :
              t.rows[i][c] = IF c = "date" THEN Converted(raw[i][c]) ELSE raw[i][c]

\* The rows of a file whose date text parses.
Dated(rows) == LET Test(r) == r.date.wellformed IN SelectSeq(rows, Test)

\* C9: the conversion keeps every row, turns a date that does not parse into
\* NaT and leaves a table without a date column alone; the date-keyed trends
\* leave the NaT rows out, the channel, category and repayment counts count them.
C9_BadDatesBecomeNaT ==
    Loaded =>
        /\ RowsKept(df, txFile)
        /\ RowsKept(sme_df, smeFile)
        /\ "fig1" \in figs =>
              /\ \A i \in 1..Len(payroll_daily.rows) : payroll_daily.rows[i].date # NaT
              /\ SumCol(payroll_daily.rows, "amount") =
                    SumCol(Dated(RowsWhere(FileRows(txFile), "category", "salary")), "amount")
        /\ "fig4" \in figs =>
              /\ \A i \in 1..Len(sme_trend.rows) : sme_trend.rows[i].date # NaT
              /\ SumCol(sme_trend.rows, "loan_amount") =
                    SumCol(Dated(FileRows(smeFile)), "loan_amount")
        /\ "fig2" \in figs => SumCounts(ch) = Len(FileRows(txFile))
        /\ "fig9" \in figs => SumCounts(cat_count) = Len(FileRows(txFile))
        /\ "fig6" \in figs => SumCounts(rep_count) = Len(FileRows(smeFile))

C9_Witness ==
    /\ pc = "done"
    /\ {"fig1", "fig2", "fig9"} \subseteq figs
    /\ Len(df.rows) = 2
    /\ df.rows[1].date = NaT
    /\ df.rows[1].category = "salary"
    /\ df.rows[2].date # NaT
    /\ df.rows[2].category = "salary"
    /\ Len(payroll_daily.rows) = 1
    /\ SumCounts(ch) = 2

\* C10: with a y column selected the explorer's figure is handed df itself
\* unless the checkbox is ticked and the chart type is a cumulative one.
C10_OnlyTickedCumulativeAggregates ==
    (ExplorerRan /\ y_var # None)
    => /\ fig.kind # None
       /\ ~(cumulative /\ chart_type \in CumTypes) => fig.data = df

C10_Witness ==
    /\ ExplorerRan
    /\ y_var # None
    /\ chart_type = "Cumulative Bar"
    /\ ~cumulative
    /\ Len(df.rows) = 2
    /\ fig.data = df
====
